---- MODULE Spec2Model ----
(***************************************************************************)
(* ListMan (src/listman.py): concurrent ingestion of word lists into one   *)
(* sorted master word list, with a progress ledger (listman.log), a        *)
(* checkpoint (resume_state.json) and three master representations.        *)
(*                                                                         *)
(* One behaviour is a sequence of invocations of the program on one disk.  *)
(* Characters are code points, a line is a sequence of characters without  *)
(* its newline, a file is a sequence of lines.                             *)
(***************************************************************************)
EXTENDS Integers, Sequences, FiniteSets, TLC

VARIABLES
    master,       \* disk: the three master files, each NoFile or its lines
    logStore,     \* disk: the lines of the log file (<<>>: absent or empty)
    resumeFile,   \* disk: the checkpoint file, NoFile or a JSON array
    pc,           \* the coordinator's position
    should_exit,  \* the process-wide cancellation flag
    cfg,          \* the parsed arguments of the current invocation
    compress,     \* the --compress argument, once save_master has read it
    existing,     \* add mode: the word set loaded from the master
    all_files,    \* the sequence of sources submitted to the pool
    task,         \* per submitted future: worker position and word set
    consumed,     \* the futures as_completed has yielded and that were merged
    words,        \* the coordinator's accumulated word set
    runNo,        \* number of invocations started before this one
    masterBefore, \* history: the master files when this invocation started
    prev          \* history: the previous invocation's outcome, mode, inputs
                  \* and number of I/O errors

vars == <<master, logStore, resumeFile, pc, should_exit, cfg, compress, existing,
          all_files, task, consumed, words, runNo, masterBefore, prev>>

disk == <<master, logStore, resumeFile>>

----------------------------------------------------------------------------
(* Bounds of the model *)

\* follow-up invocations per behaviour of SpecSeq
MaxReruns == 1
\* largest --threads value
MaxThreads == 2
\* I/O errors injected per invocation
MaxFaults == 1

----------------------------------------------------------------------------
(* The file system the invocations see *)

\* a path on disk: absent, or a file with its content
NoFile == [exists |-> FALSE, content |-> <<>>]
File(content) == [exists |-> TRUE, content |-> content]

\* str.strip() removes these (here: the space character)
Whitespace == {32}

\* the regular files that exist, with their lines: A is " a " and an empty
\* line, B is "b" and "b ", C is " a b" and "a"
SourceFiles ==
    [A |-> << <<32, 97, 32>>, <<>> >>,
     B |-> << <<98>>, <<98, 32>> >>,
     C |-> << <<32, 97, 32, 98>>, <<97>> >>]

\* the directories that exist, with the result of glob("*.txt") in each
Folders == [D |-> <<"C">>]

IsFile(f) == f \in DOMAIN SourceFiles
IsDir(d) == d \in DOMAIN Folders

Range(s) == {s[i] : i \in 1..Len(s)}

RECURSIVE Flatten(_)
Flatten(ss) == IF ss = <<>> THEN <<>> ELSE Head(ss) \o Flatten(Tail(ss))

----------------------------------------------------------------------------
(* Pure functions of the program *)

RECURSIVE LStrip(_)
LStrip(s) ==
    IF s # <<>> /\ Head(s) \in Whitespace THEN LStrip(Tail(s)) ELSE s

RECURSIVE RStrip(_)
RStrip(s) ==
    IF s # <<>> /\ s[Len(s)] \in Whitespace
    THEN RStrip(SubSeq(s, 1, Len(s) - 1)) ELSE s

\* a mutant of Strip: only leading whitespace is removed
StripLeftOnly(line) == LStrip(line)

\* line.strip()
Strip(line) == RStrip(LStrip(line))

\* lexicographic order on strings by code point: Python's str.__lt__
RECURSIVE StrLess(_, _)
StrLess(x, y) ==
    IF y = <<>> THEN FALSE
    ELSE IF x = <<>> THEN TRUE
    ELSE IF Head(x) # Head(y) THEN Head(x) < Head(y)
    ELSE StrLess(Tail(x), Tail(y))

\* sorted(words, reverse=True)
RECURSIVE SortedDescending(_)
SortedDescending(S) ==
    IF S = {} THEN <<>>
    ELSE LET m == CHOOSE x \in S : \A y \in S \ {x} : StrLess(y, x)
         IN  <<m>> \o SortedDescending(S \ {m})

\* sorted(words)
RECURSIVE Sorted(_)
Sorted(S) ==
    IF S = {} THEN <<>>
    ELSE LET m == CHOOSE x \in S : \A y \in S \ {x} : StrLess(x, y)
         IN  <<m>> \o Sorted(S \ {m})

\* lines 139-141: word = line.strip(); if word: words.add(word)
AddWord(ws, line) ==
    LET word == Strip(line) IN IF word # <<>> THEN ws \cup {word} ELSE ws

\* set(line.strip() for line in infile if line.strip())
LineSet(lines) == {Strip(lines[i]) : i \in 1..Len(lines)} \ {<<>>}

\* the file save_master writes for a --compress value
OutFile(c) == IF c = "gzip" THEN "gz" ELSE IF c = "bz2" THEN "bz2" ELSE "raw"

NoMasterFiles == [raw |-> NoFile, gz |-> NoFile, bz2 |-> NoFile]

\* save_master opening its output file with mode "a": the lines are appended
save_masterAppending(m, ws, c) ==
    [m EXCEPT ![OutFile(c)] = File(m[OutFile(c)].content \o Sorted(ws))]

\* save_master: the chosen representation is rewritten, the others untouched
save_master(m, ws, c) == [m EXCEPT ![OutFile(c)] = File(Sorted(ws))]

\* add_to_master's probe: raw, then gzip, then bz2
LoadMaster(m) ==
    IF m.raw.exists THEN LineSet(m.raw.content)
    ELSE IF m.gz.exists THEN LineSet(m.gz.content)
    ELSE IF m.bz2.exists THEN LineSet(m.bz2.content)
    ELSE {}

\* line 231
MasterExists(m) == m.raw.exists \/ m.gz.exists \/ m.bz2.exists

\* log_action's line: timestamp | action | path | count, as its fields
LogLine(action, path, count) == <<"ts", action, path, count>>

\* load_logged_files: the third field of every line with at least three
\* (enabled: log_path is not None); lg is the content of the log file
load_logged_files(lg, enabled) ==
    IF ~enabled THEN {}
    ELSE {lg[i][3] : i \in {j \in 1..Len(lg) : Len(lg[j]) >= 3}}

\* save_resume_state: the file holds a JSON array of the paths
save_resume_state(paths) == File(paths)

\* load_resume_state on the checkpoint file rs: a list, or None
load_resume_state(rs) ==
    IF rs.exists THEN [none |-> FALSE, list |-> rs.content]
    ELSE [none |-> TRUE, list |-> <<>>]

\* lines 149-163: existing explicit files, then the *.txt of existing folders
Enumerate(inputs) ==
    SelectSeq(inputs.files, IsFile)
      \o Flatten([i \in 1..Len(inputs.folders) |->
                    IF IsDir(inputs.folders[i]) THEN Folders[inputs.folders[i]]
                    ELSE <<>>])

----------------------------------------------------------------------------
(* The inputs of an invocation *)

InputChoices ==
    { [files |-> <<"A", "B">>, folders |-> <<>>],
      [files |-> <<"C">>, folders |-> <<"D">>],
      [files |-> <<"A", "B">>, folders |-> <<"D">>],
      [files |-> <<"X">>, folders |-> <<"Z">>] }

Configs ==
    [mode : {"CREATE", "ADD"}, inputs : InputChoices, threads : 1..MaxThreads,
     log : BOOLEAN, skip_logged : BOOLEAN, resume : BOOLEAN]

CompressChoices == {"none", "gzip", "bz2"}

NoCfg == [mode |-> "CREATE", inputs |-> [files |-> <<>>, folders |-> <<>>],
          threads |-> 1, log |-> FALSE, skip_logged |-> FALSE, resume |-> FALSE]

NoPrev == [outcome |-> "none", mode |-> "none",
           inputs |-> [files |-> <<>>, folders |-> <<>>], faults |-> 0,
           dispatched |-> <<>>, compress |-> "unset"]

\* the master a behaviour starts with: none, or one an earlier create saved
InitMasters ==
    { NoMasterFiles, save_master(NoMasterFiles, {<<99>>}, "none") }

\* the invocations of a sequence: one worker thread, at most two sources
SeqConfigs ==
    {c \in Configs : c.threads = 1 /\ Len(c.inputs.files) + Len(c.inputs.folders) <= 2}

----------------------------------------------------------------------------
(* The worker pool *)

Tasks == 1..Len(all_files)

\* futures whose worker is between opening the source and returning
Running == {t \in Tasks : task[t].st \in {"read", "log"}}

Done == {t \in Tasks : task[t].st = "done"}

Faults == Cardinality({t \in Tasks : task[t].err})

QueuedTask ==
    [st |-> "queued", pos |-> 0, words |-> {}, err |-> FALSE, logged |-> FALSE]

\* a mutant of IdleWorker: one thread more than max_workers
IdleWorkerOffByOne == Cardinality(Running) <= cfg.threads

\* ThreadPoolExecutor(max_workers=threads): a thread is free
IdleWorker == Cardinality(Running) < cfg.threads

\* the work queue is FIFO: t is the oldest future not yet started
NextQueued(t) ==
    /\ t \in Tasks
    /\ task[t].st = "queued"
    /\ \A u \in 1..(t - 1) : task[u].st # "queued"

\* WorkerStart of a pool whose threads leave the queue alone once the flag
\* is set
WorkerStartUnlessCancelled(t) ==
    /\ NextQueued(t)
    /\ IdleWorker
    /\ ~should_exit
    /\ task' = [task EXCEPT ![t].st = "read"]
    /\ UNCHANGED <<disk, pc, should_exit, cfg, compress, existing, all_files,
                   consumed, words, runNo, masterBefore, prev>>

\* lines 133-134: a worker takes the future, opens the source, counts lines
WorkerStart(t) ==
    /\ NextQueued(t)
    /\ IdleWorker
    /\ task' = [task EXCEPT ![t].st = "read"]
    /\ UNCHANGED <<disk, pc, should_exit, cfg, compress, existing, all_files,
                   consumed, words, runNo, masterBefore, prev>>

\* lines 133-134 raise: caught at 144, the empty set is returned
OpenFails(t) ==
    /\ NextQueued(t)
    /\ IdleWorker
    /\ Faults < MaxFaults
    /\ task' = [task EXCEPT ![t].st = "done", ![t].err = TRUE]
    /\ UNCHANGED <<disk, pc, should_exit, cfg, compress, existing, all_files,
                   consumed, words, runNo, masterBefore, prev>>

\* lines 136-141: one iteration of the read loop that does not break
ReadLine(t) ==
    /\ t \in Tasks
    /\ task[t].st = "read"
    /\ task[t].pos < Len(SourceFiles[all_files[t]])
    /\ ~should_exit
    /\ task' = [task EXCEPT
                  ![t].pos = @ + 1,
                  ![t].words = AddWord(@, SourceFiles[all_files[t]][task[t].pos + 1])]
    /\ UNCHANGED <<disk, pc, should_exit, cfg, compress, existing, all_files,
                   consumed, words, runNo, masterBefore, prev>>

\* lines 136 raises while reading: caught at 144, words so far are returned
ReadFails(t) ==
    /\ t \in Tasks
    /\ task[t].st = "read"
    /\ task[t].pos < Len(SourceFiles[all_files[t]])
    /\ Faults < MaxFaults
    /\ task' = [task EXCEPT ![t].st = "done", ![t].err = TRUE]
    /\ UNCHANGED <<disk, pc, should_exit, cfg, compress, existing, all_files,
                   consumed, words, runNo, masterBefore, prev>>

\* ReadEnds without the "not should_exit" test of line 142
ReadEndsLogsAfterBreak(t) ==
    /\ t \in Tasks
    /\ task[t].st = "read"
    /\ task[t].pos = Len(SourceFiles[all_files[t]]) \/ should_exit
    /\ task' = [task EXCEPT ![t].st = IF cfg.log THEN "log" ELSE "done"]
    /\ UNCHANGED <<disk, pc, should_exit, cfg, compress, existing, all_files,
                   consumed, words, runNo, masterBefore, prev>>

\* lines 137-138 and 142: the loop ends (end of file, or break on the flag);
\* the worker enters log_action if logging is on and the flag is not set,
\* and returns its words otherwise
ReadEnds(t) ==
    /\ t \in Tasks
    /\ task[t].st = "read"
    /\ task[t].pos = Len(SourceFiles[all_files[t]]) \/ should_exit
    /\ task' = [task EXCEPT
                  ![t].st = IF cfg.log /\ ~should_exit THEN "log" ELSE "done"]
    /\ UNCHANGED <<disk, pc, should_exit, cfg, compress, existing, all_files,
                   consumed, words, runNo, masterBefore, prev>>

\* lines 101-103: the line is appended when the log file is closed; line 146
LogAppend(t) ==
    /\ t \in Tasks
    /\ task[t].st = "log"
    /\ logStore' = Append(logStore,
                     LogLine(cfg.mode, all_files[t], Cardinality(task[t].words)))
    /\ task' = [task EXCEPT ![t].st = "done", ![t].logged = TRUE]
    /\ UNCHANGED <<master, resumeFile, pc, should_exit, cfg, compress, existing,
                   all_files, consumed, words, runNo, masterBefore, prev>>

\* lines 102-103 raise: caught at 144, the words read are returned
LogFails(t) ==
    /\ t \in Tasks
    /\ task[t].st = "log"
    /\ Faults < MaxFaults
    /\ task' = [task EXCEPT ![t].st = "done", ![t].err = TRUE]
    /\ UNCHANGED <<disk, pc, should_exit, cfg, compress, existing, all_files,
                   consumed, words, runNo, masterBefore, prev>>

----------------------------------------------------------------------------
(* The coordinator *)

Terminal == {"Completed", "Interrupted", "NoMaster"}

\* lines 168-177: the skip-logged filter, then the checkpoint if resuming
Resolve(c, enumerated, lg, rs) ==
    LET logged == load_logged_files(lg, c.log)
        filtered == IF c.skip_logged /\ c.log
                    THEN SelectSeq(enumerated, LAMBDA f : f \notin logged)
                    ELSE enumerated
        pending == load_resume_state(rs)
    IN  IF c.resume /\ ~pending.none /\ pending.list # <<>> THEN pending.list
        ELSE filtered

\* main, create_master / add_to_master and collect_words_from_inputs up to
\* the submission of the futures (lines 231-246, 149-185), on the disk
\* (m, lg, rs): where the coordinator stands, and what it holds
Started(c, m, lg, rs) ==
    IF c.mode = "ADD" /\ ~MasterExists(m)
    THEN [pc |-> "NoMaster", existing |-> {}, all_files |-> <<>>]
    ELSE IF Enumerate(c.inputs) = <<>>
    THEN [pc |-> "nothing",
          existing |-> IF c.mode = "ADD" THEN LoadMaster(m) ELSE {},
          all_files |-> <<>>]
    ELSE [pc |-> "ingest",
          existing |-> IF c.mode = "ADD" THEN LoadMaster(m) ELSE {},
          all_files |-> Resolve(c, Enumerate(c.inputs), lg, rs)]

\* the program is invoked with arguments c on a disk no run has touched
\* but for the master
InitWith(c) ==
    /\ master \in InitMasters
    /\ logStore = <<>>
    /\ resumeFile = NoFile
    /\ cfg = c
    /\ pc = Started(c, master, logStore, resumeFile).pc
    /\ existing = Started(c, master, logStore, resumeFile).existing
    /\ all_files = Started(c, master, logStore, resumeFile).all_files
    /\ task = [t \in 1..Len(all_files) |-> QueuedTask]
    /\ should_exit = FALSE
    /\ compress = "unset"
    /\ consumed = {}
    /\ words = {}
    /\ runNo = 0
    /\ masterBefore = master
    /\ prev = NoPrev

Init == \E c \in Configs : InitWith(c)

InitSeq == \E c \in SeqConfigs : InitWith(c)

\* the program is invoked again, with arguments c, after the previous
\* process has ended: a new process, so the flag starts unset
Rerun(c) ==
    /\ pc \in Terminal
    /\ runNo < MaxReruns
    /\ runNo' = runNo + 1
    /\ prev' = [outcome |-> pc, mode |-> cfg.mode, inputs |-> cfg.inputs,
                faults |-> Faults, dispatched |-> all_files,
                compress |-> compress]
    /\ cfg' = c
    /\ pc' = Started(c, master, logStore, resumeFile).pc
    /\ existing' = Started(c, master, logStore, resumeFile).existing
    /\ all_files' = Started(c, master, logStore, resumeFile).all_files
    /\ task' = [t \in 1..Len(all_files') |-> QueuedTask]
    /\ should_exit' = FALSE
    /\ compress' = "unset"
    /\ consumed' = {}
    /\ words' = {}
    /\ masterBefore' = master
    /\ UNCHANGED disk

\* lines 186-189, flag unset: words |= future.result()
Merge(t) ==
    /\ pc = "ingest"
    /\ t \in Done \ consumed
    /\ ~should_exit
    /\ words' = words \cup task[t].words
    /\ consumed' = consumed \cup {t}
    /\ UNCHANGED <<disk, pc, should_exit, cfg, compress, existing, all_files,
                   task, runNo, masterBefore, prev>>

\* lines 186-188, flag set: break, the result is not merged
MergeBreaks(t) ==
    /\ pc = "ingest"
    /\ t \in Done \ consumed
    /\ should_exit
    /\ pc' = "shutdown"
    /\ UNCHANGED <<disk, should_exit, cfg, compress, existing, all_files,
                   task, consumed, words, runNo, masterBefore, prev>>

\* line 186: as_completed is exhausted, the pool has nothing left to run
LoopEnds ==
    /\ pc = "ingest"
    /\ consumed = Tasks
    /\ pc' = "check"
    /\ UNCHANGED <<disk, should_exit, cfg, compress, existing, all_files,
                   task, consumed, words, runNo, masterBefore, prev>>

\* line 184: leaving the with block waits for every submitted future
PoolShutdown ==
    /\ pc = "shutdown"
    /\ Done = Tasks
    /\ pc' = "check"
    /\ UNCHANGED <<disk, should_exit, cfg, compress, existing, all_files,
                   task, consumed, words, runNo, masterBefore, prev>>

\* line 194
Unfinished ==
    SelectSeq(all_files, LAMBDA f : f \notin load_logged_files(logStore, cfg.log))

\* a mutant of SaveCheckpoint: sys.exit(0) is missing, so the caller goes on
\* to save_master with what was merged
SaveCheckpointNoExit ==
    /\ pc = "check"
    /\ should_exit
    /\ resumeFile' = save_resume_state(Unfinished)
    /\ master' = save_master(master,
                     IF cfg.mode = "ADD" THEN existing \cup words ELSE words, "none")
    /\ compress' = "none"
    /\ pc' = "Interrupted"
    /\ UNCHANGED <<logStore, should_exit, cfg, existing, all_files, task,
                   consumed, words, runNo, masterBefore, prev>>

\* lines 193-196: the flag is set; checkpoint and sys.exit(0)
SaveCheckpoint ==
    /\ pc = "check"
    /\ should_exit
    /\ resumeFile' = save_resume_state(Unfinished)
    /\ pc' = "Interrupted"
    /\ UNCHANGED <<master, logStore, should_exit, cfg, compress, existing,
                   all_files, task, consumed, words, runNo, masterBefore, prev>>

\* lines 193-201 with the flag unset (or the early return of line 166), then
\* save_master (lines 228, 247-248) with the --compress argument c
Finalize(c) ==
    /\ \/ pc = "check" /\ ~should_exit
       \/ pc = "nothing"
    /\ resumeFile' = IF pc = "check" THEN NoFile ELSE resumeFile
    /\ master' = save_master(master,
                     IF cfg.mode = "ADD" THEN existing \cup words ELSE words, c)
    /\ compress' = c
    /\ pc' = "Completed"
    /\ UNCHANGED <<logStore, should_exit, cfg, existing, all_files, task,
                   consumed, words, runNo, masterBefore, prev>>

\* a signal handler that flips the flag: a second SIGINT resets it
InterruptToggles ==
    /\ pc \in {"ingest", "shutdown", "check", "nothing"}
    /\ should_exit' = ~should_exit
    /\ UNCHANGED <<disk, pc, cfg, compress, existing, all_files, task,
                   consumed, words, runNo, masterBefore, prev>>

\* lines 47-50: SIGINT while the process runs (after line 193 it changes
\* nothing the program reads)
Interrupt ==
    /\ pc \in {"ingest", "shutdown", "check", "nothing"}
    /\ ~should_exit
    /\ should_exit' = TRUE
    /\ UNCHANGED <<disk, pc, cfg, compress, existing, all_files, task,
                   consumed, words, runNo, masterBefore, prev>>

Next ==
    \/ \E t \in Tasks : WorkerStart(t)
    \/ \E t \in Tasks : OpenFails(t)
    \/ \E t \in Tasks : ReadLine(t)
    \/ \E t \in Tasks : ReadFails(t)
    \/ \E t \in Tasks : ReadEnds(t)
    \/ \E t \in Tasks : LogAppend(t)
    \/ \E t \in Tasks : LogFails(t)
    \/ \E t \in Tasks : Merge(t)
    \/ \E t \in Tasks : MergeBreaks(t)
    \/ LoopEnds
    \/ PoolShutdown
    \/ SaveCheckpoint
    \/ \E c \in CompressChoices : Finalize(c)
    \/ Interrupt

NextSeq == Next \/ \E c \in SeqConfigs : Rerun(c)

\* one invocation
Spec == Init /\ [][Next]_vars

\* an invocation and its follow-up invocations on the same disk
SpecSeq == InitSeq /\ [][NextSeq]_vars

\* a step of a pool thread that raises nothing (lines 129-146)
WorkerStep ==
    \E t \in Tasks : WorkerStart(t) \/ ReadLine(t) \/ ReadEnds(t) \/ LogAppend(t)

\* a step of the main thread (lines 186-201, then save_master)
CoordinatorStep ==
    \/ \E t \in Tasks : Merge(t) \/ MergeBreaks(t)
    \/ LoopEnds
    \/ PoolShutdown
    \/ SaveCheckpoint
    \/ \E c \in CompressChoices : Finalize(c)

\* on a disk without log store and checkpoint --skip-logged and --resume
\* find nothing to read (lines 168-177): the invocations without them
FairConfigs == {c \in Configs : ~c.skip_logged /\ ~c.resume}

InitFair == \E c \in FairConfigs : InitWith(c)

\* one invocation whose threads are scheduled fairly: a pool thread that
\* can run does run, and so does the main thread; a signal or an I/O error
\* may or may not come
SpecFair ==
    InitFair /\ [][Next]_vars /\ WF_vars(WorkerStep) /\ WF_vars(CoordinatorStep)

----------------------------------------------------------------------------
(* Vocabulary of the properties *)

\* the words of a source, as the read loop collects them when it runs to the end
SourceWords(f) == LineSet(SourceFiles[f])

\* future t read its source to the end, returned normally and, with logging
\* on, appended its ledger entry
Ingested(t) ==
    /\ task[t].st = "done"
    /\ ~task[t].err
    /\ task[t].pos = Len(SourceFiles[all_files[t]])
    /\ cfg.log => task[t].logged

\* w is line l without its leading and trailing whitespace, and is not empty
IsTrimOf(w, l) ==
    /\ w # <<>>
    /\ w[1] \notin Whitespace
    /\ w[Len(w)] \notin Whitespace
    /\ \E i \in 0..Len(l) :
         /\ i + Len(w) <= Len(l)
         /\ SubSeq(l, i + 1, i + Len(w)) = w
         /\ \A k \in 1..Len(l) : (k <= i \/ k > i + Len(w)) => l[k] \in Whitespace

\* the trimmed non-empty lines of the file with lines ls
TrimmedLines(ls) ==
    UNION { {w \in {SubSeq(ls[n], i, j) : i \in 1..Len(ls[n]), j \in 1..Len(ls[n])} :
                IsTrimOf(w, ls[n])} : n \in 1..Len(ls) }

\* the file save_master wrote in this invocation
SavedFile == master[OutFile(compress)]

NoDuplicates(s) == \A i, j \in 1..Len(s) : i # j => s[i] # s[j]

----------------------------------------------------------------------------
(* C1: resume exactness.  An interrupted invocation followed by a resumed  *)
(* invocation with the same sources and mode (no I/O error in either, no   *)
(* skip-logged) leaves the master that one uninterrupted invocation over   *)
(* these sources writes.                                                   *)
UninterruptedMaster ==
    (IF cfg.mode = "ADD" THEN existing ELSE {})
      \cup UNION {SourceWords(f) : f \in Range(Enumerate(cfg.inputs))}

ResumeExactness ==
    ( /\ pc = "Completed"
      /\ cfg.resume
      /\ prev.outcome = "Interrupted"
      /\ prev.mode = cfg.mode
      /\ prev.inputs = cfg.inputs
      /\ prev.faults = 0
      /\ Faults = 0
      /\ ~cfg.skip_logged )
    => LineSet(SavedFile.content) = UninterruptedMaster

(* C2: checkpoint exactness.  The checkpoint of an interrupted invocation  *)
(* (no I/O error raised) holds exactly the sources this invocation did not *)
(* ingest to the end.                                                      *)
CheckpointExactness ==
    (pc = "Interrupted" /\ Faults = 0) =>
        Range(resumeFile.content) = {all_files[t] : t \in {u \in Tasks : ~Ingested(u)}}

(* C3: no master save on interruption.  Once the coordinator has broken out *)
(* of the merge loop the flag is set, so line 193 takes the checkpoint      *)
(* branch; and an invocation that ended Interrupted never ran save_master   *)
(* and left the three master files as they were when it started.            *)
NoMasterSaveOnInterruption ==
    /\ pc = "shutdown" => should_exit
    /\ pc = "Interrupted" => (master = masterBefore /\ compress = "unset")

InterruptedAfterMerging ==
    /\ pc = "Interrupted"
    /\ MasterExists(masterBefore)
    /\ words # {}
    /\ resumeFile.exists

(* C4: a clean completion invalidates stale resume state.  After an        *)
(* invocation that saved the master no checkpoint file exists (shown for   *)
(* invocations without I/O errors).                                        *)
CompletionClearsCheckpoint ==
    (pc = "Completed" /\ prev.faults = 0 /\ Faults = 0) => ~resumeFile.exists

(* C5: checkpoint precedence on resume.  An invocation with resume         *)
(* requested that finds a checkpoint (left by an invocation without I/O    *)
(* errors) dispatches exactly the checkpoint's sequence.                   *)
CheckpointPrecedence ==
    [][ ( /\ runNo' = runNo + 1
          /\ Faults = 0
          /\ cfg'.resume
          /\ resumeFile.exists
          /\ pc' # "NoMaster" )
        => all_files' = resumeFile.content ]_vars

(* C6: once the flag is set, no source still queued is started.            *)
NoStartAfterCancellation ==
    [][ \A t \in Tasks :
          (should_exit /\ task[t].st = "queued" /\ runNo' = runNo)
            => task'[t].st = "queued" ]_vars

(* C7: pool bound.  At most --threads sources are being ingested at once.  *)
PoolBound == Cardinality(Running) <= cfg.threads

PoolFullWithQueue ==
    /\ cfg.threads = 2
    /\ Cardinality(Running) = 2
    /\ \E t \in Tasks : task[t].st = "queued"

(* C8: ledger appends are mutually exclusive.  No two workers are inside   *)
(* log_action at once.                                                     *)
LedgerMutualExclusion ==
    Cardinality({t \in Tasks : task[t].st = "log"}) <= 1

(* C9: per-source failure isolation.  In a completed invocation a source   *)
(* whose worker raised contributed nothing: the merged set is the union of *)
(* the words of the sources that did not fail.                             *)
FailureIsolation ==
    pc = "Completed" =>
        words = UNION {SourceWords(all_files[t]) : t \in {u \in Tasks : ~task[u].err}}

(* C10: union correctness.  An uninterrupted create without skip-logged    *)
(* and resume, all sources readable, saves the trimmed non-empty lines of  *)
(* all sources, each once.                                                 *)
UnionCorrectness ==
    ( /\ pc = "Completed"
      /\ cfg.mode = "CREATE"
      /\ ~cfg.skip_logged
      /\ ~cfg.resume
      /\ Faults = 0 )
    => /\ SavedFile.exists
       /\ NoDuplicates(SavedFile.content)
       /\ Range(SavedFile.content)
            = UNION {TrimmedLines(SourceFiles[f]) : f \in Range(Enumerate(cfg.inputs))}

UnionOfThreeSources ==
    /\ pc = "Completed"
    /\ cfg.mode = "CREATE"
    /\ ~cfg.skip_logged
    /\ ~cfg.resume
    /\ Faults = 0
    /\ cfg.threads = 2
    /\ Len(all_files) = 3
    /\ Len(SavedFile.content) = 3

\* the representations of the master that exist on disk
Representations(m) == {k \in DOMAIN m : m[k].exists}

\* the words of the sources the invocation's arguments name
AddedWords == UNION {TrimmedLines(SourceFiles[f]) : f \in Range(Enumerate(cfg.inputs))}

(* C11: add preserves and extends the master.  When an add without         *)
(* skip-logged and resume completes with all sources readable, the master  *)
(* that a load then returns is the master a load returned before the run   *)
(* united with the words of the added sources.                             *)
AddPreservesAndExtends ==
    ( /\ pc = "Completed"
      /\ cfg.mode = "ADD"
      /\ ~cfg.skip_logged
      /\ ~cfg.resume
      /\ Faults = 0 )
    => LoadMaster(master) = LoadMaster(masterBefore) \cup AddedWords

(* C12: save then load round trip.  After a completed run the master that  *)
(* a load returns (probing raw, gzip, bz2) is exactly the word set the run *)
(* handed to save, whatever representations earlier saves left on disk.    *)
SaveLoadRoundTrip ==
    pc = "Completed" =>
        LoadMaster(master) = (IF cfg.mode = "ADD" THEN existing \cup words ELSE words)

(* C13: single representation.  At most one of the raw, gzip and bz2       *)
(* representations of the master exists on disk.                           *)
SingleRepresentation == Cardinality(Representations(master)) <= 1

(* C14: idempotence of add.  An add that follows a completed add that      *)
(* ingested the same sources, with the same compression mode and all       *)
(* sources readable in both, leaves the master a load returns as the first *)
(* add left it; when the second add ingests all the sources again, every   *)
(* master file is as the first add left it.                                *)
AddIdempotent ==
    ( /\ pc = "Completed"
      /\ cfg.mode = "ADD"
      /\ prev.outcome = "Completed"
      /\ prev.mode = "ADD"
      /\ prev.inputs = cfg.inputs
      /\ prev.dispatched = Enumerate(cfg.inputs)
      /\ prev.compress = compress
      /\ prev.faults = 0
      /\ Faults = 0 )
    => /\ LoadMaster(master) = LoadMaster(masterBefore)
       /\ all_files = Enumerate(cfg.inputs) => master = masterBefore

SecondAddOfSameSource ==
    /\ pc = "Completed"
    /\ cfg.mode = "ADD"
    /\ prev.outcome = "Completed"
    /\ prev.mode = "ADD"
    /\ prev.inputs = cfg.inputs
    /\ prev.dispatched = Enumerate(cfg.inputs)
    /\ prev.compress = compress
    /\ compress = "none"
    /\ prev.faults = 0
    /\ Faults = 0
    /\ Len(all_files) = 2
    /\ consumed = {1, 2}
    /\ Cardinality(LoadMaster(master)) = 3

(* C15: skip-logged correctness.  When an invocation with skip-logged (and *)
(* without resume) starts after a run in which no read failed, no source   *)
(* it submits to the pool has its path in an entry of the log store,       *)
(* whether or not the invocation logs.                                     *)
SkipLoggedNeverDispatched ==
    [][ ( /\ runNo' = runNo + 1
          /\ Faults = 0
          /\ cfg'.skip_logged
          /\ ~cfg'.resume )
        => \A i \in 1..Len(all_files') :
               all_files'[i] \notin load_logged_files(logStore, TRUE) ]_vars

(* C16: deduplicated enumeration.  No source path is ingested twice in one *)
(* run: of two futures submitted for the same path, at most one is ever    *)
(* taken up by a worker (all sources readable).                            *)
NoSourceIngestedTwice ==
    Faults = 0 =>
        \A t, u \in Tasks :
            (t # u /\ all_files[t] = all_files[u])
                => (task[t].st = "queued" \/ task[u].st = "queued")

(* C17: ledger lifecycle.  In one invocation the log store holds one entry *)
(* per future whose worker logged; a worker logged only with logging on,   *)
(* after reading its source to the end without failing, and its entry      *)
(* carries the action, the path and the number of distinct words of the    *)
(* source; a worker that returned normally with logging on while the flag  *)
(* was never set has logged; so every logged path was read completely.     *)
LedgerLifecycle ==
    /\ Len(logStore) = Cardinality({t \in Tasks : task[t].logged})
    /\ \A t \in Tasks :
        /\ task[t].logged =>
              /\ cfg.log
              /\ ~task[t].err
              /\ task[t].pos = Len(SourceFiles[all_files[t]])
              /\ \E i \in 1..Len(logStore) :
                    logStore[i] = LogLine(cfg.mode, all_files[t],
                        Cardinality(TrimmedLines(SourceFiles[all_files[t]])))
        /\ (cfg.log /\ task[t].st = "done" /\ ~task[t].err /\ ~should_exit)
              => task[t].logged
    /\ \A i \in 1..Len(logStore) :
          \E t \in Tasks :
              /\ all_files[t] = logStore[i][3]
              /\ task[t].logged
              /\ task[t].pos = Len(SourceFiles[all_files[t]])

LoggedAndCutShort ==
    /\ cfg.log
    /\ should_exit
    /\ \E t, u \in Tasks :
          /\ task[t].logged
          /\ task[t].words # {}
          /\ task[u].st = "done"
          /\ ~task[u].err
          /\ task[u].pos < Len(SourceFiles[all_files[u]])
          /\ ~task[u].logged
          /\ all_files[u] # all_files[t]

\* x comes before y in the order of their code points: at the first place
\* where they differ x has the smaller one, or x is a proper prefix of y
Precedes(x, y) ==
    \E k \in 1..(Len(x) + 1) :
        /\ \A i \in 1..(k - 1) : i <= Len(y) /\ x[i] = y[i]
        /\ \/ k = Len(x) + 1 /\ k <= Len(y)
           \/ k <= Len(x) /\ k <= Len(y) /\ x[k] < y[k]

\* the word set the invocation hands to save_master
SavedWords == IF cfg.mode = "ADD" THEN existing \cup words ELSE words

(* C18: sort invariant.  Whatever the compression mode, the lines of the   *)
(* file a completed invocation saved are strictly ascending and are        *)
(* exactly the words of the set handed to save.                            *)
SortInvariant ==
    pc = "Completed" =>
        /\ \A i \in 1..(Len(SavedFile.content) - 1) :
              Precedes(SavedFile.content[i], SavedFile.content[i + 1])
        /\ Range(SavedFile.content) = SavedWords
        /\ Len(SavedFile.content) = Cardinality(SavedWords)

SavedFourWordsCompressed ==
    /\ pc = "Completed"
    /\ compress = "bz2"
    /\ cfg.mode = "ADD"
    /\ SavedFile.content = << <<97>>, <<97, 32, 98>>, <<98>>, <<99>> >>

\* an invocation that has ended Completed or Interrupted stays so
TerminalStateKept ==
    [][ (pc \in {"Completed", "Interrupted"}) => (pc' = pc) ]_vars

(* C19: termination.  With fairly scheduled threads, every invocation that *)
(* gets past the master check ends Completed, with the master saved, or    *)
(* Interrupted, with the checkpoint written, and stays there; and once the *)
(* flag is set while the coordinator is between submitting the futures and *)
(* its test of the flag, the invocation ends Interrupted with the          *)
(* checkpoint written.                                                     *)
Termination ==
    /\ (pc # "NoMaster") ~> (pc \in {"Completed", "Interrupted"})
    /\ (should_exit /\ pc \in {"ingest", "shutdown", "check"})
           ~> (pc = "Interrupted" /\ resumeFile.exists)
    /\ [](pc = "Completed" => SavedFile.exists)
    /\ [](pc = "Interrupted" => resumeFile.exists)
    /\ TerminalStateKept

InterruptedWithQueuedWorkers ==
    /\ pc = "Interrupted"
    /\ resumeFile.exists
    /\ cfg.threads = 1
    /\ Len(all_files) = 3
    /\ Done = Tasks
    /\ Faults = 0
    /\ task[1].pos = 1
    /\ task[3].pos = 0

\* the worker of future t returned normally before the end of its source
CutShort(t) ==
    /\ task[t].st = "done"
    /\ ~task[t].err
    /\ task[t].pos < Len(SourceFiles[all_files[t]])

(* C20: no truncated contribution reaches the master.  The result of a     *)
(* worker that stopped reading early is never merged, no invocation with   *)
(* such a worker completes, and the master a completed invocation saved    *)
(* holds all the words of every dispatched source whose worker did not     *)
(* fail.                                                                   *)
NoTruncatedContribution ==
    /\ \A t \in Tasks : CutShort(t) => (t \notin consumed /\ pc # "Completed")
    /\ pc = "Completed" =>
          \A t \in Tasks :
              ~task[t].err =>
                  /\ task[t].pos = Len(SourceFiles[all_files[t]])
                  /\ TrimmedLines(SourceFiles[all_files[t]])
                         \subseteq Range(SavedFile.content)

CutShortResultDiscarded ==
    /\ pc = "Interrupted"
    /\ Faults = 0
    /\ consumed # {}
    /\ master = masterBefore
    /\ \E t \in Tasks : CutShort(t) /\ task[t].words # {}

====
